---- MODULE Spec2Model ----
(***************************************************************************)
(* The school-directory scrapers of caribou-data-collection as a state     *)
(* machine: the British Columbia scraper (canada/britishcolumbia/          *)
(* bc_scraper.py) and the India scraper (india/india_scraper.py), each     *)
(* driving one browser session over a web site that is the environment.    *)
(* Python strings are TLA+ strings; TLC evaluates Len, SubSeq and \o on    *)
(* them, so parsing is modelled character by character.                    *)
(***************************************************************************)
EXTENDS Naturals, Integers, Sequences, FiniteSets, TLC

VARIABLES
    prog,               \* which scraper runs: "bc" or "india"
    site,               \* the web site the browser talks to (environment)
    pc,                 \* position of the single thread of control
    err,                \* the exception that ended the run, or NoError
    browser,            \* self._browser: [open, url]
    cities,             \* bc: the values of the citySelect options
    ci,                 \* bc: python index i of the city loop
    city,               \* bc: the city argument of __scrape_schools_in_city
    schools,            \* bc: (text, value) of the citySchoolSelect options
    si,                 \* bc: python index i of the school loop
    states_and_values,  \* india: self.states_and_values, sorted by state name
    sti,                \* india: position in states_and_values
    li,                 \* india: position in the letters of the inner loop
    current_state,      \* india: self._current_state
    num_pages,          \* india: num_pages of the running search
    page_num,           \* india: page_num of __iterate_results
    served,             \* india: the result page the site is showing
    output,             \* the output data file: its lines, without the "\n"
    stdout,             \* what the scraper printed: one entry per print block
    logfile,            \* the messages given to logging: [level, msg]
    trace,              \* the commands given to the browser, and the sleeps
    fs,                 \* the directories, the working directory, the user's answers
    logpath,            \* main: the local logpath, "unbound" until assigned
    datapath,           \* main: the local datapath, "unbound" until assigned
    files               \* the files written besides the data file: name -> lines

bcVars == <<cities, ci, city, schools, si>>
inVars == <<states_and_values, sti, li, current_state, num_pages, page_num, served>>
outVars == <<output, stdout>>
mainVars == <<fs, logpath, datapath, files>>
vars == <<prog, site, pc, err, browser, cities, ci, city, schools, si,
          states_and_values, sti, li, current_state, num_pages, page_num,
          served, output, stdout, logfile, trace, fs, logpath, datapath, files>>

(***************************************************************************)
(* Bounds of the model.                                                    *)
(***************************************************************************)
MaxCityOptions == 3
MaxSchoolOptions == 3
MaxStateOptions == 3
MaxPages == 2
MaxLines == 4
MaxPasses == 2

(***************************************************************************)
(* Python string operations.  Positions are found with sets and strings    *)
(* are rebuilt by halves, so that evaluation stays shallow.                *)
(***************************************************************************)
CharAt(s, k) == SubSeq(s, k, k)

\* s[n:]
Slice(s, n) == SubSeq(s, n + 1, Len(s))

\* the first position in lo..hi where sep occurs in s; 0 when there is none
RECURSIVE FindIn(_, _, _, _)
FindIn(s, sep, lo, hi) ==
    IF lo > hi THEN 0
    ELSE IF lo = hi THEN (IF SubSeq(s, lo, lo + Len(sep) - 1) = sep THEN lo ELSE 0)
    ELSE LET h == (lo + hi) \div 2
             l == FindIn(s, sep, lo, h)
         IN IF l # 0 THEN l ELSE FindIn(s, sep, h + 1, hi)

\* s.find(sep, from), 1-based; 0 when sep does not occur
Find(s, sep, from) == FindIn(s, sep, from, Len(s) - Len(sep) + 1)

\* s.split(sep)
RECURSIVE Split(_, _)
Split(s, sep) ==
    LET k == Find(s, sep, 1) IN
    IF k = 0 THEN <<s>>
    ELSE <<SubSeq(s, 1, k - 1)>> \o Split(SubSeq(s, k + Len(sep), Len(s)), sep)

IsSpace(c) == c \in {" ", "\n", "\t"}

RECURSIVE LStrip(_)
LStrip(s) == IF Len(s) > 0 /\ IsSpace(CharAt(s, 1)) THEN LStrip(SubSeq(s, 2, Len(s))) ELSE s

RECURSIVE RStrip(_)
RStrip(s) ==
    IF Len(s) > 0 /\ IsSpace(CharAt(s, Len(s))) THEN RStrip(SubSeq(s, 1, Len(s) - 1)) ELSE s

\* s.strip()
Strip(s) == RStrip(LStrip(s))

\* sep.join(parts)
RECURSIVE Join(_, _)
Join(parts, sep) ==
    IF Len(parts) = 0 THEN ""
    ELSE IF Len(parts) = 1 THEN parts[1]
    ELSE parts[1] \o sep \o Join(Tail(parts), sep)

\* s.count(c) for a one-character c
Count(s, c) == Cardinality({k \in 1..Len(s) : CharAt(s, k) = c})

LowerLetters == "abcdefghijklmnopqrstuvwxyz"
UpperLetters == "ABCDEFGHIJKLMNOPQRSTUVWXYZ"
Digits == "0123456789"
\* the ASCII characters of the model in code-point order; Find gives the rank
AsciiOrder ==
    "\t\n !%'(),-./0123456789:=?@ABCDEFGHIJKLMNOPQRSTUVWXYZ_abcdefghijklmnopqrstuvwxyz"

CharsOf(s) == {CharAt(s, k) : k \in 1..Len(s)}
LowerSet == CharsOf(LowerLetters)
UpperSet == CharsOf(UpperLetters)
DigitSet == CharsOf(Digits)
AsciiSet == CharsOf(AsciiOrder)
UpperOf == [c \in LowerSet |-> CharAt(UpperLetters, Find(LowerLetters, c, 1))]
LowerOf == [c \in UpperSet |-> CharAt(LowerLetters, Find(UpperLetters, c, 1))]
OrdOf == [c \in AsciiSet |-> Find(AsciiOrder, c, 1)]

IsLower(c) == c \in LowerSet
IsUpper(c) == c \in UpperSet
IsLetter(c) == IsLower(c) \/ IsUpper(c)
IsDigit(c) == c \in DigitSet
Ord(c) == IF c \in AsciiSet THEN OrdOf[c] ELSE 0

ToUpper(c) == IF IsLower(c) THEN UpperOf[c] ELSE c
ToLower(c) == IF IsUpper(c) THEN LowerOf[c] ELSE c

\* urllib.pathname2url (urllib.quote): letters, digits and "_.-/" are kept,
\* every other character becomes %XX
UrlSafe(c) == IsLetter(c) \/ IsDigit(c) \/ c \in {"_", ".", "-", "/"}

PercentCode(c) ==
    CASE c = " " -> "%20"
      [] c = "," -> "%2C"
      [] c = ":" -> "%3A"
      [] c = "?" -> "%3F"
      [] c = "=" -> "%3D"
      [] c = "@" -> "%40"
      [] c = "\n" -> "%0A"
      [] OTHER -> "%25"

RECURSIVE pathname2url(_)
pathname2url(s) ==
    IF Len(s) = 0 THEN ""
    ELSE IF Len(s) = 1 THEN (IF UrlSafe(s) THEN s ELSE PercentCode(s))
    ELSE LET h == Len(s) \div 2 IN
         pathname2url(SubSeq(s, 1, h)) \o pathname2url(SubSeq(s, h + 1, Len(s)))

\* s.lower()
RECURSIVE Lower(_)
Lower(s) ==
    IF Len(s) <= 1 THEN ToLower(s)
    ELSE LET h == Len(s) \div 2 IN
         Lower(SubSeq(s, 1, h)) \o Lower(SubSeq(s, h + 1, Len(s)))

\* s.title(): a letter that follows a letter is lowered, any other letter
\* raised; TitleRange does the characters lo..hi of s
RECURSIVE TitleRange(_, _, _)
TitleRange(s, lo, hi) ==
    IF lo > hi THEN ""
    ELSE IF lo = hi
    THEN (IF lo > 1 /\ IsLetter(CharAt(s, lo - 1))
          THEN ToLower(CharAt(s, lo)) ELSE ToUpper(CharAt(s, lo)))
    ELSE LET h == (lo + hi) \div 2 IN TitleRange(s, lo, h) \o TitleRange(s, h + 1, hi)
Title(s) == TitleRange(s, 1, Len(s))

\* s.encode('ascii', 'ignore'): characters outside ASCII are dropped
RECURSIVE EncodeAsciiIgnore(_)
EncodeAsciiIgnore(s) ==
    IF Len(s) = 0 THEN ""
    ELSE IF Len(s) = 1 THEN (IF Ord(s) # 0 THEN s ELSE "")
    ELSE LET h == Len(s) \div 2 IN
         EncodeAsciiIgnore(SubSeq(s, 1, h)) \o EncodeAsciiIgnore(SubSeq(s, h + 1, Len(s)))

\* s.replace(old, new) for a one-character old
RECURSIVE Replace(_, _, _)
Replace(s, old, new) ==
    IF Len(s) = 0 THEN ""
    ELSE IF Len(s) = 1 THEN (IF s = old THEN new ELSE s)
    ELSE LET h == Len(s) \div 2 IN
         Replace(SubSeq(s, 1, h), old, new) \o Replace(SubSeq(s, h + 1, Len(s)), old, new)

\* s.replace(old, new) for a non-empty old of any length
ReplaceAll(s, old, new) == Join(Split(s, old), new)

\* a < b for Python str (code-point order, a proper prefix first)
RECURSIVE StrLess(_, _)
StrLess(a, b) ==
    IF Len(b) = 0 THEN FALSE
    ELSE IF Len(a) = 0 THEN TRUE
    ELSE IF CharAt(a, 1) # CharAt(b, 1) THEN Ord(CharAt(a, 1)) < Ord(CharAt(b, 1))
    ELSE StrLess(SubSeq(a, 2, Len(a)), SubSeq(b, 2, Len(b)))

\* int(s) is defined on digit strings (surrounding whitespace allowed)
AllDigits(s) == \A k \in 1..Len(s) : IsDigit(CharAt(s, k))
IsInt(s) == Len(Strip(s)) > 0 /\ AllDigits(Strip(s))

RECURSIVE DigitsValue(_)
DigitsValue(s) ==
    IF Len(s) = 0 THEN 0
    ELSE 10 * DigitsValue(SubSeq(s, 1, Len(s) - 1)) + (Find(Digits, CharAt(s, Len(s)), 1) - 1)
ParseInt(s) == DigitsValue(Strip(s))

\* str(n) for n >= 0
RECURSIVE IntToStr(_)
IntToStr(n) ==
    IF n < 10 THEN CharAt(Digits, n + 1)
    ELSE IntToStr(n \div 10) \o CharAt(Digits, (n % 10) + 1)

\* the first match of the pattern ,[0-9]{6} starting in lo..hi; 0 when none
RECURSIVE FindPostalIn(_, _, _)
FindPostalIn(s, lo, hi) ==
    IF lo > hi THEN 0
    ELSE IF lo = hi
    THEN (IF CharAt(s, lo) = "," /\ AllDigits(SubSeq(s, lo + 1, lo + 6)) THEN lo ELSE 0)
    ELSE LET h == (lo + hi) \div 2
             l == FindPostalIn(s, lo, h)
         IN IF l # 0 THEN l ELSE FindPostalIn(s, h + 1, hi)
FindPostal(s) == FindPostalIn(s, 1, Len(s) - 6)

\* re.split('(,[0-9]{6})', s): the pieces between matches, each match kept
RECURSIVE SplitPostal(_)
SplitPostal(s) ==
    LET k == FindPostal(s) IN
    IF k = 0 THEN <<s>>
    ELSE <<SubSeq(s, 1, k - 1), SubSeq(s, k, k + 6)>> \o SplitPostal(SubSeq(s, k + 7, Len(s)))

(***************************************************************************)
(* Events: what the scraper does to the world besides writing its file.    *)
(***************************************************************************)
NoError == [type |-> "none", at |-> "none"]
Raised(type, at) == [type |-> type, at |-> at]

EvSleep == [op |-> "sleep"]                      \* time.sleep(random.randint(0, self.seconds))
EvGet(url) == [op |-> "get", url |-> url]        \* self._browser.get(url)
EvClick(id) == [op |-> "click", id |-> id]       \* find_element_by_id(id).click()
EvSelect(value) == [op |-> "select", value |-> value]  \* Select(...).select_by_value(value)
EvType(text) == [op |-> "type", text |-> text]   \* search_box.clear(); send_keys(text)
EvClose == [op |-> "close"]                      \* self._browser.close()

LogMsg(level, msg, args) == [level |-> level, msg |-> msg, args |-> args]

\* The outcomes of Select(self._browser.find_element_by_id(...))
LookupFailures ==
    {"UnexpectedTagNameException", "StaleElementReferenceException", "NoSuchElementException"}
\* the two that the scrapers catch and log at critical severity
CaughtLookupFailures == {"UnexpectedTagNameException", "StaleElementReferenceException"}

Found(options) == [result |-> "ok", options |-> options]
NotFound(exc) == [result |-> exc, options |-> <<>>]

(***************************************************************************)
(* The British Columbia site (environment).  A page is what one school URL *)
(* serves: the mailto anchor of the right column (or none) and the text of *)
(* the two table columns.                                                  *)
(***************************************************************************)
bc_base_url == "http://www.bced.gov.bc.ca/apps/imcl/imclWeb/"  \* line 277
bc_home_url == bc_base_url \o "Home.do"

PageFull ==
    [anchor |-> TRUE, href |-> "mailto:a@b.ca",
     left |-> "\nK-7\n1 Main St, Suite 4, Vic, V8X1A1\nPrincipal - Jane Smith\nPublic",
     right |-> "\n\n250-1\n250-2\na@b.ca"]
PageNoAnchor ==
    [anchor |-> FALSE, href |-> "",
     left |-> "\nK-7\n1 Main St, Suite 4, Vic, V8X1A1\nPrincipal - Jane Smith\nPublic",
     right |-> "\n\n250-1\n250-2"]
PageEmptyMail ==
    [anchor |-> TRUE, href |-> "mailto:",
     left |-> "\nK-7\n1 Main St, Suite 4, Vic, V8X1A1\nPrincipal - Jane Smith\nPublic",
     right |-> "\n\n250-1\n250-2"]
PageComma ==
    [anchor |-> TRUE, href |-> "mailto:c@d.ca",
     left |-> "\nK-7\n9 Elm Rd, Hope, V0X1L0\nContact - Smith, Jo",
     right |-> "\n\n"]
PageShort ==
    [anchor |-> TRUE, href |-> "mailto:e@f.ca",
     left |-> "\nK-7",
     right |-> "\n"]
PageNoSep ==
    [anchor |-> TRUE, href |-> "mailto:g@h.ca",
     left |-> "\nK-7\n2 Bay St, Unit 1, Comox, BC, V9M1A1\nJane Smith",
     right |-> "\n\n 250-3 "]

PageTwoSeps ==
    [anchor |-> TRUE, href |-> "mailto:i@j.ca",
     left |-> "\nK-7\n5 Oak Ave, Unit 2, Hope, BC\nPrincipal - Jo Lee - Acting",
     right |-> "\n\n250-4"]

BCPages ==
    {PageFull, PageNoAnchor, PageEmptyMail, PageComma, PageShort, PageNoSep, PageTwoSeps}

\* citySelect: option values.  Option 0 is a label or, for all the scraper
\* knows, anything else; the options after it repeat two city values.
CityFirsts == {"City", "Hope"}
CityAt(k) == IF k % 2 = 1 THEN "Hope" ELSE "Comox, North"
CityOptionLists ==
    {<<>>} \cup {<<f>> \o [k \in 1..n |-> CityAt(k)] :
                    f \in CityFirsts, n \in 0..(MaxCityOptions - 1)}

\* citySchoolSelect: option (text, value)
Opt(text, value) == [text |-> text, value |-> value]
SchoolValues == {"School.do?id=1", "School.do?id=2"}
SchoolFirsts == {Opt("School Name", ""), Opt("Elm Elementary", "School.do?id=1")}
SchoolAt(k) ==
    IF k % 2 = 1 THEN Opt(" Elm Elementary", "School.do?id=1")
    ELSE Opt("Oak, West Secondary ", "School.do?id=2")
SchoolOptionLists ==
    {<<>>} \cup {<<f>> \o [k \in 1..n |-> SchoolAt(k)] :
                    f \in SchoolFirsts, n \in 0..(MaxSchoolOptions - 1)}

NoBCSite ==
    [home_ok |-> TRUE, citySelect |-> Found(<<>>), schoolSelect |-> Found(<<>>),
     pages |-> [v \in SchoolValues |-> PageFull]]

BCSites ==
    {[home_ok |-> TRUE, citySelect |-> Found(c), schoolSelect |-> Found(s), pages |-> p] :
        c \in CityOptionLists, s \in SchoolOptionLists, p \in [SchoolValues -> BCPages]}
    \cup
    {[NoBCSite EXCEPT !.citySelect = Found(<<"City", "Hope", "Comox, North">>),
                      !.schoolSelect = NotFound(x)] : x \in LookupFailures}
    \cup
    {[NoBCSite EXCEPT !.citySelect = NotFound(x)] : x \in LookupFailures}
    \cup
    {[NoBCSite EXCEPT !.home_ok = FALSE]}

\* what the site serves for a school URL
BCPageAt(url) ==
    IF \E v \in SchoolValues : bc_base_url \o v = url
    THEN site.bc.pages[CHOOSE v \in SchoolValues : bc_base_url \o v = url]
    ELSE PageNoAnchor

(***************************************************************************)
(* bc_scraper.Scraper.__extract_contact_info                               *)
(***************************************************************************)
\* faulty variant: the school board value left out of the line
CsvLine_NoBoard(r) ==
    Join(<<r.school, r.name, r.address, r.city, r.province, r.postal_code,
           r.contact, r.phone, r.position, r.email, r.timezone, r.country>>, ",")

\* faulty variant: position written before phone
CsvLine_PositionFirst(r) ==
    Join(<<r.school, r.name, r.address, r.city, r.province, r.postal_code,
           r.schoolboard, r.contact, r.position, r.phone, r.email, r.timezone,
           r.country>>, ",")

\* faulty variant: the file opened in mode 'w'
AppendLines_Overwrite(file, lines) == lines

\* line 199: with open(self.output, 'a') as csv_file, and the write
AppendLines(file, lines) == file \o lines

\* the thirteen values of one record, named as the code's locals
\* csv_file.write('{},{},...,{}\n'.format(school, name, ..., country))
CsvLine(r) ==
    Join(<<r.school, r.name, r.address, r.city, r.province, r.postal_code,
           r.schoolboard, r.contact, r.phone, r.position, r.email, r.timezone,
           r.country>>, ",")

\* print ('school id = {}\n' ... 'country = {}').format(...)
Printed(r) ==
    [kind |-> "record",
     school_id |-> r.school, school_name |-> r.name, address |-> r.address,
     city |-> r.city, province |-> r.province, postal_code |-> r.postal_code,
     schoolboard |-> r.schoolboard, contact_name |-> r.contact,
     contact_phone |-> r.phone, contact_position |-> r.position,
     contact_email |-> r.email, timezone |-> r.timezone, country |-> r.country]
PrintedNoEmail == [kind |-> "no email found"]

\* lines 176-180
ParseAddress(left_col_data) ==
    IF Len(left_col_data) < 3 THEN [address |-> "N/A", postal_code |-> "N/A"]
    ELSE LET full_address == Split(left_col_data[3], ",") IN
         IF Len(full_address) < 4 THEN [address |-> "N/A", postal_code |-> "N/A"]
         ELSE [address |-> Strip(full_address[1]), postal_code |-> Strip(full_address[4])]

\* lines 181-185
ParseContact(left_col_data) ==
    IF Len(left_col_data) < 4 THEN [position |-> "N/A", contact |-> ""]
    ELSE LET contact_person == Split(left_col_data[4], " - ") IN
         IF Len(contact_person) < 2 THEN [position |-> "N/A", contact |-> ""]
         ELSE [position |-> Strip(contact_person[1]), contact |-> Strip(contact_person[2])]

\* lines 186-187
ParsePhone(right_col_data) ==
    IF Len(right_col_data) < 3 THEN "null" ELSE Strip(right_col_data[3])

\* faulty variant: every record accepted
HasEmail_Always(email) == TRUE

\* line 170: if email:
HasEmail(email) == email # ""

\* The whole method on the page the browser shows: the exception it raises
\* (or none), the lines it appends to the file and the blocks it prints.
ExtractContactInfo(schoolname, cityname, page) ==
    IF ~page.anchor
    THEN [exc |-> "NoSuchElementException", lines |-> <<>>, prints |-> <<>>]
    ELSE LET email == Slice(page.href, 7) IN
         IF HasEmail(email)
         THEN LET left_col_data == Split(page.left, "\n")
                  right_col_data == Split(page.right, "\n")
                  a == ParseAddress(left_col_data)
                  c == ParseContact(left_col_data)
                  r == [school |-> "null", name |-> schoolname, address |-> a.address,
                        city |-> cityname, province |-> "BC",
                        postal_code |-> a.postal_code, schoolboard |-> "null",
                        contact |-> c.contact, phone |-> ParsePhone(right_col_data),
                        position |-> c.position, email |-> email,
                        timezone |-> "America/Vancouver", country |-> "CA"]
              IN [exc |-> "none", lines |-> <<CsvLine(r)>>, prints |-> <<Printed(r)>>]
         ELSE [exc |-> "none", lines |-> <<>>, prints |-> <<PrintedNoEmail>>]

\* The method's result for every (school name, city, page) the site can
\* give, worked out once: the texts a school option can show, stripped as
\* line 122 strips them, the values a city option can hold, the pages.
SchoolNames == {Strip(o.text) : o \in SchoolFirsts \cup {SchoolAt(1), SchoolAt(2)}}
CityNames == CityFirsts \cup {CityAt(1), CityAt(2)}
ExtractContactInfoOf ==
    [x \in SchoolNames \X CityNames \X BCPages |->
        ExtractContactInfo(x[1], x[2], x[3])] @@ <<>>

(***************************************************************************)
(* bc_scraper.Scraper: scrape, __scrape_cities, __scrape_schools_in_city   *)
(***************************************************************************)
Crash(type, at) ==
    /\ pc' = "crashed"
    /\ err' = Raised(type, at)

\* faulty variant: the first option treated as any other
SkipOption_Never(i) == FALSE

\* lines 103 and 131: if i == 0: continue
SkipOption(i) == i = 0

\* lines 104-105
CityUrl(c) == bc_home_url \o "?city=" \o pathname2url(c)
\* line 133
SchoolUrl(value) == bc_base_url \o value

\* lines 72-76: open the browser, load the home page, check its title
BCScrape ==
    /\ prog = "bc" /\ pc = "scrape"
    /\ browser' = [open |-> TRUE, url |-> bc_home_url]
    /\ trace' = trace \o <<EvGet(bc_home_url)>>
    /\ IF site.bc.home_ok
       THEN pc' = "scrape_cities" /\ err' = err
       ELSE Crash("AssertionError", "scrape")
    /\ UNCHANGED <<mainVars, prog, site, bcVars, inVars, outVars, logfile>>

\* lines 85-99: read the city dropdown
ScrapeCities ==
    /\ prog = "bc" /\ pc = "scrape_cities"
    /\ LET found == site.bc.citySelect IN
       IF found.result = "ok"
       THEN /\ cities' = found.options
            /\ ci' = 0
            /\ logfile' = logfile \o
                 <<LogMsg("info", "Found %d cities", <<Len(found.options) - 1>>)>>
            /\ pc' = "cities_loop" /\ err' = err
       ELSE IF found.result \in CaughtLookupFailures
       THEN \* logged, then city_list is unbound at line 97
            /\ logfile' = logfile \o <<LogMsg("critical", "citySelect", <<found.result>>)>>
            /\ Crash("UnboundLocalError", "__scrape_cities")
            /\ UNCHANGED <<cities, ci>>
       ELSE /\ Crash(found.result, "__scrape_cities")
            /\ UNCHANGED <<cities, ci, logfile>>
    /\ UNCHANGED <<mainVars, prog, site, browser, city, schools, si, inVars, outVars, trace>>

\* lines 102-103: the first option is skipped
CitiesLoopSkip ==
    /\ prog = "bc" /\ pc = "cities_loop"
    /\ ci < Len(cities) /\ SkipOption(ci)
    /\ ci' = ci + 1
    /\ UNCHANGED <<mainVars, prog, site, pc, err, browser, cities, city, schools, si, inVars,
                   outVars, logfile, trace>>

\* lines 104-109: pause, load the city's page, enter __scrape_schools_in_city
CitiesLoopVisit ==
    /\ prog = "bc" /\ pc = "cities_loop"
    /\ ci < Len(cities) /\ ~SkipOption(ci)
    /\ LET c == cities[ci + 1] IN
       /\ logfile' = logfile \o <<LogMsg("info", "Scraping city %d: %s", <<ci, c>>)>>
       /\ trace' = trace \o <<EvSleep, EvGet(CityUrl(c))>>
       /\ browser' = [browser EXCEPT !.url = CityUrl(c)]
       /\ city' = c
    /\ pc' = "scrape_schools_in_city"
    /\ UNCHANGED <<mainVars, prog, site, err, cities, ci, schools, si, inVars, outVars>>

\* lines 82-83: the loop is over, __scrape_cities returns, the browser is closed
CitiesLoopEnd ==
    /\ prog = "bc" /\ pc = "cities_loop"
    /\ ci >= Len(cities)
    /\ browser' = [browser EXCEPT !.open = FALSE]
    /\ trace' = trace \o <<EvClose>>
    /\ pc' = "done"
    /\ UNCHANGED <<mainVars, prog, site, err, bcVars, inVars, outVars, logfile>>

\* lines 111-124: read the school dropdown of the city page
ScrapeSchoolsInCity ==
    /\ prog = "bc" /\ pc = "scrape_schools_in_city"
    /\ LET found == site.bc.schoolSelect IN
       IF found.result = "ok"
       THEN /\ schools' = [k \in 1..Len(found.options) |->
                             <<Strip(found.options[k].text), found.options[k].value>>]
            /\ si' = 0
            /\ logfile' = logfile \o
                 <<LogMsg("info", "Found %d schools", <<Len(found.options) - 1>>)>>
            /\ pc' = "schools_loop" /\ err' = err
       ELSE IF found.result \in CaughtLookupFailures
       THEN \* logged, then school_list is unbound at line 122
            /\ logfile' = logfile \o
                 <<LogMsg("critical", "citySchoolSelect", <<found.result>>)>>
            /\ Crash("UnboundLocalError", "__scrape_schools_in_city")
            /\ UNCHANGED <<schools, si>>
       ELSE /\ Crash(found.result, "__scrape_schools_in_city")
            /\ UNCHANGED <<schools, si, logfile>>
    /\ UNCHANGED <<mainVars, prog, site, browser, cities, ci, city, inVars, outVars, trace>>

\* lines 130-131
SchoolsLoopSkip ==
    /\ prog = "bc" /\ pc = "schools_loop"
    /\ si < Len(schools) /\ SkipOption(si)
    /\ si' = si + 1
    /\ UNCHANGED <<mainVars, prog, site, pc, err, browser, cities, ci, city, schools, inVars,
                   outVars, logfile, trace>>

\* lines 132-137 and 139-224: pause, load the school's page, extract it
SchoolsLoopVisit ==
    /\ prog = "bc" /\ pc = "schools_loop"
    /\ si < Len(schools) /\ ~SkipOption(si)
    /\ LET school_name == schools[si + 1][1]
           school_url == SchoolUrl(schools[si + 1][2])
           got == ExtractContactInfoOf[<<school_name, city, BCPageAt(school_url)>>]
       IN /\ logfile' = logfile \o
                <<LogMsg("info", "\tScraping school %d: %s", <<si, school_name>>)>>
          /\ trace' = trace \o <<EvSleep, EvGet(school_url)>>
          /\ browser' = [browser EXCEPT !.url = school_url]
          /\ output' = AppendLines(output, got.lines)
          /\ stdout' = stdout \o got.prints
          /\ IF got.exc = "none"
             THEN si' = si + 1 /\ pc' = pc /\ err' = err
             ELSE si' = si /\ Crash(got.exc, "__extract_contact_info")
    /\ UNCHANGED <<mainVars, prog, site, cities, ci, city, schools, inVars>>

\* the school loop is over: back in the city loop, next city
SchoolsLoopEnd ==
    /\ prog = "bc" /\ pc = "schools_loop"
    /\ si >= Len(schools)
    /\ ci' = ci + 1
    /\ pc' = "cities_loop"
    /\ UNCHANGED <<mainVars, prog, site, err, browser, cities, city, schools, si, inVars,
                   outVars, logfile, trace>>

(***************************************************************************)
(* The India site (environment): the state dropdown, what every search     *)
(* answers, and the tables of a result page.                               *)
(***************************************************************************)
in_base_url == "http://164.100.50.30/SchoolDir/userview.aspx"
PageSize == 25

StateFirsts == {Opt("Select A State", "0"), Opt("BIHAR", "10")}
StateOpts == {Opt("GOA", "30"), Opt("goa", "03"), Opt("BIHAR", "10")}
SeqsUpTo(S, n) == UNION {[1..k -> S] : k \in 0..n}
StateOptionLists ==
    {<<>>} \cup {<<f>> \o rest : f \in StateFirsts, rest \in SeqsUpTo(StateOpts, MaxStateOptions - 1)}

\* A search answers with the element 'tot' (the result count) or without it,
\* with or without the label 'No Record Found For This KeyWord', and with
\* result pages whose Next button is disabled from page `last` on.
NResults == UNION {{PageSize * p - (PageSize - 1), PageSize * p} : p \in 1..MaxPages}
SearchResults ==
    {[tot |-> FALSE, text |-> "", label |-> TRUE, last |-> 1]}
    \cup {[tot |-> TRUE, text |-> t, label |-> TRUE, last |-> 1] : t \in {"", "0"}}
    \cup {[tot |-> TRUE, text |-> IntToStr(n), label |-> FALSE, last |-> k] :
            n \in NResults, k \in 1..(MaxPages + 1)}

TableJunk == "Affiliated Schools"
BlockFull ==
    "1\nAffiliation No.130297\nName: azaan school\nHead/Principal Name:Mrs.P shikoh\n"
    \o "Address: 9-4, tombs road, Hyderabad ,500008\nPhone No:,0406 4509,0402\n"
    \o "Email:Azaan@gmail.com"
BlockNoEmail ==
    "2\nAffiliation No.130298\nName: B school\nHead/Principal Name:Mr. C\n"
    \o "Address: 1 Road, Panaji ,403001\nPhone No:\nEmail:"
BlockNoPostal ==
    "3\nAffiliation No.130299\nName: D school\nHead/Principal Name:\n"
    \o "Address: 2 Road, Patna,\nPhone No: ,\nEmail: d@e.in "
BlockShort == "4\nAffiliation No.130300\nName: F school\nHead/Principal Name:Mr. G"
BlockNoColon ==
    "5\nAffiliation No.130301\nName H school\nHead/Principal Name:Mr. I\n"
    \o "Address: 3 Road ,800001\nPhone No:1\nEmail:h@i.in"

TableLists ==
    {<<>>, <<TableJunk>>, <<TableJunk, BlockFull, BlockNoEmail>>,
     <<TableJunk, BlockNoEmail, BlockNoPostal>>, <<TableJunk, BlockFull, BlockShort>>,
     <<TableJunk, BlockNoColon, BlockFull>>}

NoIndiaSite ==
    [title_ok |-> TRUE,
     stateSelect |-> Found(<<Opt("Select A State", "0"), Opt("GOA", "30")>>),
     search |-> [tot |-> TRUE, text |-> "1", label |-> FALSE, last |-> 1],
     tables |-> <<TableJunk, BlockFull, BlockNoEmail>>]

IndiaSites ==
    {[NoIndiaSite EXCEPT !.stateSelect = Found(o), !.search = r] :
        o \in StateOptionLists, r \in SearchResults}
    \cup {[NoIndiaSite EXCEPT !.tables = t] : t \in TableLists}
    \cup {[NoIndiaSite EXCEPT !.stateSelect = NotFound(x)] : x \in LookupFailures}
    \cup {[NoIndiaSite EXCEPT !.title_ok = FALSE]}

(***************************************************************************)
(* india_scraper.Scraper.__scrape_schools                                  *)
(***************************************************************************)
\* school_data[k].split(':')[1] with Python index k; "IndexError" when
\* the line or the part is missing
NoValue == [ok |-> FALSE, s |-> ""]
AfterColon(school_data, k) ==
    IF Len(school_data) < k + 1 THEN NoValue
    ELSE LET parts == Split(school_data[k + 1], ":") IN
         IF Len(parts) < 2 THEN NoValue ELSE [ok |-> TRUE, s |-> parts[2]]

\* faulty variant: no address kept when the postal code is missing
IndiaParseAddress_AllOrNothing(raw) ==
    LET address_list == SplitPostal(EncodeAsciiIgnore(Title(raw))) IN
    IF Len(address_list) < 2 THEN [address |-> "N/A", postal_code |-> "N/A"]
    ELSE [address |-> Strip(address_list[1]), postal_code |-> Slice(address_list[2], 1)]

\* lines 228-236
IndiaParseAddress(raw) ==
    LET full_address == EncodeAsciiIgnore(Title(raw))
        address_list == SplitPostal(full_address)
        stripped == Strip(address_list[1])
        address == IF Len(stripped) > 0 /\ SubSeq(stripped, Len(stripped), Len(stripped)) = ","
                   THEN SubSeq(stripped, 1, Len(stripped) - 1) ELSE stripped
    IN [address |-> address,
        postal_code |-> IF Len(address_list) < 2 THEN "N/A" ELSE Slice(address_list[2], 1)]

\* lines 221-223
IndiaParsePhone(raw) ==
    LET phone == Strip(Replace(Replace(raw, " ", ""), ",", " ")) IN
    IF phone = "" THEN "null" ELSE phone

IndiaPrinted(r) ==
    [kind |-> "record",
     school_id |-> r.school_id, school_name |-> r.school_name, address |-> r.address,
     city |-> r.city, province |-> r.state, postal_code |-> r.postal_code,
     schoolboard |-> r.schoolboard, contact_name |-> r.contact_name,
     contact_phone |-> r.phone, contact_position |-> r.contact_position,
     contact_email |-> r.email, timezone |-> r.timezone, country |-> r.country]
IndiaPrintedSkipped(school_name) == [kind |-> "No email. Skipped", school_name |-> school_name]

\* lines 204-266 for one table: the exception raised (or none), the lines
\* appended to the file (none: the write is commented out) and the print
ScrapeSchool(text, state) ==
    LET school_data == Split(text, "\n")
        name == AfterColon(school_data, 2)
        mail == AfterColon(school_data, 6)
        head == AfterColon(school_data, 3)
        tel == AfterColon(school_data, 5)
        addr == AfterColon(school_data, 4)
        failed == [exc |-> "IndexError", lines |-> <<>>, prints |-> <<>>]
    IN IF ~name.ok \/ ~mail.ok THEN failed
       ELSE LET school_name == EncodeAsciiIgnore(Title(Strip(name.s)))
                email == Lower(Strip(mail.s))
            IN IF ~HasEmail(email)
               THEN [exc |-> "none", lines |-> <<>>,
                     prints |-> <<IndiaPrintedSkipped(school_name)>>]
               ELSE IF ~head.ok \/ ~tel.ok \/ ~addr.ok THEN failed
               ELSE LET a == IndiaParseAddress(addr.s)
                        r == [school_id |-> "null", school_name |-> school_name,
                              address |-> a.address, city |-> "N/A", state |-> state,
                              postal_code |-> a.postal_code, schoolboard |-> "null",
                              contact_name |-> EncodeAsciiIgnore(Title(Strip(head.s))),
                              phone |-> IndiaParsePhone(tel.s),
                              contact_position |-> "Principal", email |-> email,
                              timezone |-> "Asia/Kolkata", country |-> "IN"]
                    IN [exc |-> "none", lines |-> <<>>, prints |-> <<IndiaPrinted(r)>>]

\* lines 202-203: for table in tables[1:], until one raises
RECURSIVE ScrapeTables(_, _)
ScrapeTables(tables, state) ==
    IF Len(tables) = 0 THEN [exc |-> "none", lines |-> <<>>, prints |-> <<>>]
    ELSE LET one == ScrapeSchool(Head(tables), state) IN
         IF one.exc # "none" THEN one
         ELSE LET rest == ScrapeTables(Tail(tables), state) IN
              [exc |-> rest.exc, lines |-> one.lines \o rest.lines,
               prints |-> one.prints \o rest.prints]
ScrapeSchools(tables, state) ==
    ScrapeTables(SubSeq(tables, 2, Len(tables)), state)

\* The method's result for every (result page, current state) the site can
\* give, worked out once: the state names are the title-cased option texts.
StateNames == {Title(o.text) : o \in StateFirsts \cup StateOpts}
ScrapeSchoolsOf ==
    [x \in TableLists \X StateNames |-> ScrapeSchools(x[1], x[2])] @@ <<>>

(***************************************************************************)
(* india_scraper.Scraper: scrape, __get_states_and_values,                 *)
(* __iterate_states_and_search, __search_for, __iterate_results            *)
(***************************************************************************)
\* line 132: for letter in 'qz':#string.lowercase:
Letters == "qz"

\* faulty variant: the states listed from the last name to the first
RECURSIVE SortByName_Descending(_)
SortByName_Descending(S) ==
    IF S = {} THEN <<>>
    ELSE LET m == CHOOSE x \in S : \A y \in S \ {x} : StrLess(y[1], x[1]) IN
         <<m>> \o SortByName_Descending(S \ {m})

\* lines 119-123: {title(text): value}, a later option replacing an earlier
\* one of the same name, then sorted by name
RECURSIVE SortByName(_)
SortByName(S) ==
    IF S = {} THEN <<>>
    ELSE LET m == CHOOSE x \in S : \A y \in S \ {x} : StrLess(x[1], y[1]) IN
         <<m>> \o SortByName(S \ {m})

\* faulty variant: the first option listed as a state
StatesAndValues_WithFirst(options) ==
    LET used == 1..Len(options)
        LastOf(k) == \A j \in used : j > k => Title(options[j].text) # Title(options[k].text)
    IN SortByName({<<Title(options[k].text), options[k].value>> : k \in {j \in used : LastOf(j)}})

\* lines 119-123: the states of options[1:], by name
StatesAndValues(options) ==
    LET used == 2..Len(options)
        LastOf(k) == \A j \in used : j > k => Title(options[j].text) # Title(options[k].text)
    IN SortByName({<<Title(options[k].text), options[k].value>> : k \in {j \in used : LastOf(j)}})

\* faulty variant: the state selected on whatever page the browser shows
GotoStateSearchAndSelectState_NoReload(value) ==
    <<EvClick("optlist_2"), EvSelect(value)>>

\* lines 87-89: the browser commands of __goto_state_search_and_select_state
GotoStateSearchAndSelectState(value) ==
    <<EvGet(in_base_url), EvClick("optlist_2"), EvSelect(value)>>

\* faulty variant: the page count rounded down
NumPages_Floor(num_results) == num_results \div PageSize

\* line 160: math.ceil(num_results / 25.0)
NumPages(num_results) == (num_results + (PageSize - 1)) \div PageSize

\* faulty variant: the loop never left early
BreakAtNext_Never(enabled) == FALSE

\* line 182: if not next_button.is_enabled(): break
BreakAtNext(enabled) == ~enabled

EvClickNext(enabled) == [op |-> "click", id |-> "Button1", enabled |-> enabled]

\* line 80
IndiaScrape ==
    /\ prog = "india" /\ pc = "scrape"
    /\ browser' = [open |-> TRUE, url |-> ""]
    /\ pc' = "get_states_and_values"
    /\ UNCHANGED <<mainVars, prog, site, err, bcVars, inVars, outVars, logfile, trace>>

\* lines 81, 91-123: load the entry page, read the state dropdown
GetStatesAndValues ==
    /\ prog = "india" /\ pc = "get_states_and_values"
    /\ browser' = [browser EXCEPT !.url = in_base_url]
    /\ LET found == site.india.stateSelect IN
       IF ~site.india.title_ok
       THEN /\ trace' = trace \o <<EvGet(in_base_url)>>
            /\ Crash("AssertionError", "__goto_state_search_and_get_state_list")
            /\ UNCHANGED <<states_and_values, sti, logfile>>
       ELSE /\ trace' = trace \o <<EvGet(in_base_url), EvClick("optlist_2")>>
            /\ IF found.result = "ok"
               THEN /\ states_and_values' = StatesAndValues(found.options)
                    /\ sti' = 0
                    /\ logfile' = logfile \o
                         <<LogMsg("info", "Found %d states",
                                  <<Len(StatesAndValues(found.options))>>)>>
                    /\ pc' = "states_loop" /\ err' = err
               ELSE IF found.result \in CaughtLookupFailures
               THEN \* logged, None returned, then None.options at line 121
                    /\ logfile' = logfile \o <<LogMsg("critical", "ddlitem", <<found.result>>)>>
                    /\ Crash("AttributeError", "__get_states_and_values")
                    /\ UNCHANGED <<states_and_values, sti>>
               ELSE /\ Crash(found.result, "__goto_state_search_and_get_state_list")
                    /\ UNCHANGED <<states_and_values, sti, logfile>>
    /\ UNCHANGED <<mainVars, prog, site, bcVars, li, current_state, num_pages, page_num, served,
                   outVars>>

\* lines 128-130: the next state
StatesLoopNext ==
    /\ prog = "india" /\ pc = "states_loop"
    /\ sti < Len(states_and_values)
    /\ current_state' = states_and_values[sti + 1][1]
    /\ logfile' = logfile \o
         <<LogMsg("info", "Scraping state %s", <<states_and_values[sti + 1][1]>>)>>
    /\ li' = 0
    /\ pc' = "letters_loop"
    /\ UNCHANGED <<mainVars, prog, site, err, browser, bcVars, states_and_values, sti, num_pages,
                   page_num, served, outVars, trace>>

\* line 83: every state is done, the browser is closed
StatesLoopEnd ==
    /\ prog = "india" /\ pc = "states_loop"
    /\ sti >= Len(states_and_values)
    /\ browser' = [browser EXCEPT !.open = FALSE]
    /\ trace' = trace \o <<EvClose>>
    /\ pc' = "done"
    /\ UNCHANGED <<mainVars, prog, site, err, bcVars, inVars, outVars, logfile>>

\* lines 132-137, 85-89, 140-169: reset the search page, select the state,
\* pause, submit the letter, read the result count
LettersLoopSearch ==
    /\ prog = "india" /\ pc = "letters_loop"
    /\ li < Len(Letters)
    /\ LET value == states_and_values[sti + 1][2]
           letter == SubSeq(Letters, li + 1, li + 1)
           answer == site.india.search
           searching == LogMsg("info", "\tSearching for schools with '%s' in the name or address",
                               <<letter>>)
       IN /\ trace' = trace \o GotoStateSearchAndSelectState(value)
                        \o <<EvSleep, EvType(letter), EvClick("search")>>
          /\ browser' = [browser EXCEPT !.url = in_base_url]
          /\ served' = 1
          /\ IF ~answer.tot
             THEN \* NoSuchElementException: zero results
                  /\ logfile' = logfile \o <<searching, LogMsg("info", "\tFound 0 schools", <<>>)>>
                  /\ li' = li + 1
                  /\ UNCHANGED <<pc, err, num_pages, page_num>>
             ELSE IF ~IsInt(answer.text)
             THEN /\ logfile' = logfile \o <<searching>>
                  /\ Crash("ValueError", "__search_for")
                  /\ UNCHANGED <<li, num_pages, page_num>>
             ELSE /\ num_pages' = NumPages(ParseInt(answer.text))
                  /\ logfile' = logfile \o
                       <<searching,
                         LogMsg("info", "\tFound %d %s (%d %s)",
                                <<ParseInt(answer.text), NumPages(ParseInt(answer.text))>>)>>
                  /\ page_num' = 1
                  /\ pc' = "iterate_results"
                  /\ UNCHANGED <<li, err>>
    /\ UNCHANGED <<mainVars, prog, site, bcVars, states_and_values, sti, current_state, outVars>>

\* the letters are done: next state
LettersLoopEnd ==
    /\ prog = "india" /\ pc = "letters_loop"
    /\ li >= Len(Letters)
    /\ sti' = sti + 1
    /\ pc' = "states_loop"
    /\ UNCHANGED <<mainVars, prog, site, err, browser, bcVars, states_and_values, li, current_state,
                   num_pages, page_num, served, outVars, logfile, trace>>

\* lines 176-184: one result page: pause, scrape its tables, go to the next
IteratePage ==
    /\ prog = "india" /\ pc = "iterate_results"
    /\ page_num <= num_pages
    /\ LET got == ScrapeSchoolsOf[<<site.india.tables, current_state>>]
           enabled == served < site.india.search.last
       IN /\ logfile' = logfile \o <<LogMsg("info", "\t\tScraping page %d", <<page_num>>)>>
          /\ output' = AppendLines(output, got.lines)
          /\ stdout' = stdout \o got.prints
          /\ IF got.exc # "none"
             THEN /\ Crash(got.exc, "__scrape_schools")
                  /\ trace' = trace \o <<EvSleep>>
                  /\ UNCHANGED <<li, page_num, served>>
             ELSE IF BreakAtNext(enabled)
             THEN /\ trace' = trace \o <<EvSleep>>
                  /\ li' = li + 1
                  /\ pc' = "letters_loop"
                  /\ UNCHANGED <<err, page_num, served>>
             ELSE /\ trace' = trace \o <<EvSleep, EvClickNext(enabled)>>
                  /\ served' = IF enabled THEN served + 1 ELSE served
                  /\ page_num' = page_num + 1
                  /\ UNCHANGED <<pc, err, li>>
    /\ UNCHANGED <<mainVars, prog, site, browser, bcVars, states_and_values, sti, current_state,
                   num_pages>>

\* the page loop is over: __search_for returns, next letter
IterateEnd ==
    /\ prog = "india" /\ pc = "iterate_results"
    /\ page_num > num_pages
    /\ li' = li + 1
    /\ pc' = "letters_loop"
    /\ UNCHANGED <<mainVars, prog, site, err, browser, bcVars, states_and_values, sti, current_state,
                   num_pages, page_num, served, outVars, logfile, trace>>

(***************************************************************************)
(* utils/io.py and main(): the directories, the logger, the deduplication  *)
(***************************************************************************)
\* io.py line 20
COUNTRIES == {"canada", "india"}
\* where the script is started from: basename and parent's basename of getcwd()
Cwds ==
    {[base |-> "caribou-data-collection", parent |-> "home"],
     [base |-> "canada", parent |-> "caribou-data-collection"],
     [base |-> "britishcolumbia", parent |-> "canada"],
     [base |-> "home", parent |-> ""]}
\* one directory name: where os.path.isdir finds it, what raw_input returns
Places == {"current", "parent", "grandparent"}
Responses == {"", "Yes", "no"}
DirEnvs == {[isdir |-> S, response |-> r] : S \in SUBSET Places, r \in Responses}
DirFound == [isdir |-> {"current"}, response |-> ""]
FsFound == [cwd |-> [base |-> "caribou-data-collection", parent |-> "home"],
            logs |-> DirFound, data |-> DirFound]
FileSystems ==
    {[cwd |-> c, logs |-> l, data |-> d] :
        c \in Cwds, d \in DirEnvs,
        l \in {DirFound, [isdir |-> {}, response |-> ""], [isdir |-> {}, response |-> "no"]}}

\* faulty variant: a missing directory is reported as found when declined
DirExists_DeclineIgnored(dirname, dir, cwd) ==
    [result |-> "True", datapath |-> "./" \o dirname \o "/", created |-> FALSE]

\* io.py lines 22-64: the result, io.datapath, whether os.mkdir was called
DirExists(dirname, dir, cwd) ==
    LET current_dir == "./" \o dirname \o "/"
        parent_dir == "../" \o dirname \o "/"
        grandparent_dir == "../../" \o dirname \o "/"
        Is(path, created) == [result |-> "True", datapath |-> path, created |-> created]
    IN IF "current" \in dir.isdir THEN Is(current_dir, FALSE)
       ELSE IF "parent" \in dir.isdir THEN Is(parent_dir, FALSE)
       ELSE IF "grandparent" \in dir.isdir THEN Is(grandparent_dir, FALSE)
       ELSE IF dir.response = "" \/ ToLower(CharAt(dir.response, 1)) = "y"
       THEN IF cwd.base = "caribou-data-collection" THEN Is(current_dir, TRUE)
            ELSE IF cwd.base \in COUNTRIES THEN Is(parent_dir, TRUE)
            ELSE IF cwd.parent \in COUNTRIES THEN Is(grandparent_dir, TRUE)
            ELSE [result |-> "RuntimeError", datapath |-> "", created |-> FALSE]
       ELSE [result |-> "False", datapath |-> "", created |-> FALSE]

\* print 'Created', datapath
PrintedCreated(path) == [kind |-> "created", path |-> path]
\* print 'You need a data directory to continue.'
PrintedNeedData == [kind |-> "need data directory"]
Prints(found) == IF found.created THEN <<PrintedCreated(found.datapath)>> ELSE <<>>

\* parse_args: args.output.replace('.csv', '') + time.strftime('-%b-%d-%Y.csv')
\* with the default output name, on a sample day
ArgsOutput ==
    ReplaceAll(IF prog = "india" THEN "india" ELSE "britishcolumbia", ".csv", "")
        \o "-Jan-01-2013.csv"

\* io.py line 68
UniqueName(infile) == ReplaceAll(infile, ".csv", "-unique.csv")

\* faulty variant: a line is remembered only while it is the last one written
RECURSIVE RemoveDupesFrom_Adjacent(_, _, _)
RemoveDupesFrom_Adjacent(lines, s, written) ==
    IF lines = <<>> THEN written
    ELSE IF Head(lines) \in s
    THEN RemoveDupesFrom_Adjacent(Tail(lines), s, written)
    ELSE RemoveDupesFrom_Adjacent(Tail(lines), {Head(lines)}, Append(written, Head(lines)))

\* io.py lines 71-74: the loop over the lines of infile, s the seen-set
RECURSIVE RemoveDupesFrom(_, _, _)
RemoveDupesFrom(lines, s, written) ==
    IF lines = <<>> THEN written
    ELSE IF Head(lines) \in s
    THEN RemoveDupesFrom(Tail(lines), s, written)
    ELSE RemoveDupesFrom(Tail(lines), s \cup {Head(lines)}, Append(written, Head(lines)))

\* faulty variant: the lines kept are written last first
RECURSIVE RemoveDupes_Reversed(_)
RemoveDupes_Reversed(lines) ==
    IF lines = <<>> THEN <<>>
    ELSE LET rest == RemoveDupes_Reversed(Tail(lines)) IN
         IF \E k \in 1..Len(rest) : rest[k] = Head(lines)
         THEN rest ELSE Append(rest, Head(lines))

\* io.py lines 69-74: what remove_dupes writes for the lines of infile
RemoveDupes(lines) == RemoveDupesFrom(lines, {}, <<>>)

\* io.py lines 68-74 on the files fls: filename is opened in mode 'w'
\* (created, or emptied when it exists) before infile is opened and read
RemoveDupesOn(fls, infile) ==
    LET filename == UniqueName(infile)
        opened == (filename :> <<>>) @@ fls
    IN (filename :> RemoveDupes(opened[infile])) @@ fls

\* remove_dupes(infile) on a file that exists
IORemoveDupes ==
    /\ prog = "io" /\ pc = "io"
    /\ Cardinality(DOMAIN files) <= MaxPasses
    /\ \E infile \in DOMAIN files : files' = RemoveDupesOn(files, infile)
    /\ UNCHANGED <<prog, site, pc, err, browser, bcVars, inVars, outVars, logfile, trace,
                   fs, logpath, datapath>>

\* the status the process ends with: 0 after main returns, 1 after
\* sys.exit(1) or an uncaught exception; -1 while it runs
ExitStatus ==
    IF pc = "exited" THEN 0 ELSE IF pc \in {"exit1", "crashed"} THEN 1 ELSE -1

\* bc_scraper.py lines 265-266: if io.dir_exists('logs'): logpath = io.datapath
MainLogsDir ==
    /\ pc = "main"
    /\ LET found == DirExists("logs", fs.logs, fs.cwd) IN
       /\ stdout' = stdout \o Prints(found)
       /\ IF found.result = "RuntimeError"
          THEN Crash("RuntimeError", "dir_exists") /\ logpath' = logpath
          ELSE /\ pc' = "main_data" /\ err' = err
               /\ logpath' = IF found.result = "True" THEN found.datapath ELSE logpath
    /\ UNCHANGED <<prog, site, browser, bcVars, inVars, output, logfile, trace, fs,
                   datapath, files>>

\* lines 267-271: the data directory, or exit with status 1
MainDataDir ==
    /\ pc = "main_data"
    /\ LET found == DirExists("data", fs.data, fs.cwd) IN
       IF found.result = "RuntimeError"
       THEN /\ Crash("RuntimeError", "dir_exists")
            /\ UNCHANGED <<datapath, stdout>>
       ELSE IF found.result = "True"
       THEN /\ datapath' = found.datapath \o ArgsOutput
            /\ stdout' = stdout \o Prints(found)
            /\ pc' = "main_logger" /\ err' = err
       ELSE /\ stdout' = stdout \o <<PrintedNeedData>>
            /\ pc' = "exit1" /\ err' = err
            /\ datapath' = datapath
    /\ UNCHANGED <<prog, site, browser, bcVars, inVars, output, logfile, trace, fs,
                   logpath, files>>

\* lines 273-278: set_logger(..., logpath), the first two log messages, Scraper(...)
MainSetLogger ==
    /\ pc = "main_logger"
    /\ IF logpath = "unbound"
       THEN Crash("UnboundLocalError", "main") /\ logfile' = logfile
       ELSE /\ logfile' = logfile \o
                 <<LogMsg("info", "Started on %s", <<"day">>),
                   LogMsg("info", "Log level = %s, Max seconds to pause = %d, File mode = %s",
                          <<"info", 0, "w">>)>>
            /\ pc' = "scrape" /\ err' = err
    /\ UNCHANGED <<mainVars, prog, site, browser, bcVars, inVars, outVars, trace>>

\* lines 281-282: if args.unique: io.remove_dupes(datapath).  The data file
\* exists when the run wrote a line to it; opening a missing infile raises
\* IOError after the unique file was opened for writing.
MainFinish ==
    /\ pc = "done"
    /\ \E unique \in BOOLEAN :
          IF ~unique
          THEN pc' = "exited" /\ err' = err /\ files' = files
          ELSE IF output = <<>>
          THEN /\ files' = (UniqueName(datapath) :> <<>>) @@ files
               /\ Crash("IOError", "remove_dupes")
          ELSE /\ files' = (UniqueName(datapath) :> RemoveDupes(output)) @@ files
               /\ pc' = "exited" /\ err' = err
    /\ UNCHANGED <<prog, site, browser, bcVars, inVars, outVars, logfile, trace, fs,
                   logpath, datapath>>

(***************************************************************************)
(* The state machine.                                                      *)
(***************************************************************************)
Init ==
    /\ prog \in {"bc", "india"}
    /\ site \in {[bc |-> b, india |-> NoIndiaSite] : b \in BCSites}
                \cup {[bc |-> NoBCSite, india |-> i] : i \in IndiaSites}
    /\ prog = "bc" => site.india = NoIndiaSite
    /\ prog = "india" => site.bc = NoBCSite
    /\ fs \in FileSystems
    /\ (fs = FsFound \/ (site.bc = NoBCSite /\ site.india = NoIndiaSite))
    /\ logpath = "unbound" /\ datapath = "unbound" /\ files = <<>>
    /\ pc = "main"
    /\ err = NoError
    /\ browser = [open |-> FALSE, url |-> ""]
    /\ cities = <<>> /\ ci = 0 /\ city = "" /\ schools = <<>> /\ si = 0
    /\ states_and_values = <<>> /\ sti = 0 /\ li = 0 /\ current_state = ""
    /\ num_pages = 0 /\ page_num = 0 /\ served = 0
    /\ output = <<>> /\ stdout = <<>> /\ logfile = <<>> /\ trace = <<>>

Next ==
    \/ MainLogsDir
    \/ MainDataDir
    \/ MainSetLogger
    \/ MainFinish
    \/ BCScrape
    \/ ScrapeCities
    \/ CitiesLoopSkip
    \/ CitiesLoopVisit
    \/ CitiesLoopEnd
    \/ ScrapeSchoolsInCity
    \/ SchoolsLoopSkip
    \/ SchoolsLoopVisit
    \/ SchoolsLoopEnd
    \/ IndiaScrape
    \/ GetStatesAndValues
    \/ StatesLoopNext
    \/ StatesLoopEnd
    \/ LettersLoopSearch
    \/ LettersLoopEnd
    \/ IteratePage
    \/ IterateEnd

Spec == Init /\ [][Next]_vars

\* The program is one sequential process: a statement that can run does run.
FairSpec == Spec /\ WF_vars(Next)

(***************************************************************************)
(* utils/io.remove_dupes on its own: any file of a few lines is            *)
(* deduplicated, and the file that gives is deduplicated again.            *)
(***************************************************************************)
IOLines == {"A", "B", "C"}
\* the names remove_dupes is called with: with and without '.csv'
IONames == {"d.csv", "d"}
InitIO ==
    /\ prog = "io" /\ pc = "io"
    /\ site = [bc |-> NoBCSite, india |-> NoIndiaSite]
    /\ fs = FsFound
    /\ \E infile \in IONames, lines \in SeqsUpTo(IOLines, MaxLines) :
          files = (infile :> lines)
    /\ err = NoError
    /\ browser = [open |-> FALSE, url |-> ""]
    /\ cities = <<>> /\ ci = 0 /\ city = "" /\ schools = <<>> /\ si = 0
    /\ states_and_values = <<>> /\ sti = 0 /\ li = 0 /\ current_state = ""
    /\ num_pages = 0 /\ page_num = 0 /\ served = 0
    /\ output = <<>> /\ stdout = <<>> /\ logfile = <<>> /\ trace = <<>>
    /\ logpath = "unbound" /\ datapath = "unbound"

NextIO == IORemoveDupes

SpecIO == InitIO /\ [][NextIO]_vars

(***************************************************************************)
(* Reading the run: the records printed, the navigations made.             *)
(***************************************************************************)
IsRecord(e) == e.kind = "record"
\* the records the extractor accepted, in the order it printed them
Records == SelectSeq(stdout, IsRecord)
\* the thirteen values of a printed record, in the order the print names them
ValuesOf(p) ==
    <<p.school_id, p.school_name, p.address, p.city, p.province, p.postal_code,
      p.schoolboard, p.contact_name, p.contact_phone, p.contact_position,
      p.contact_email, p.timezone, p.country>>
RECURSIVE Sum(_)
Sum(q) == IF Len(q) = 0 THEN 0 ELSE Head(q) + Sum(Tail(q))
EmbeddedCommas(p) == Sum([k \in 1..13 |-> Count(ValuesOf(p)[k], ",")])
StartsWith(s, prefix) ==
    Len(s) >= Len(prefix) /\ SubSeq(s, 1, Len(prefix)) = prefix
Fields(line) == Split(line, ",")

(***************************************************************************)
(* C1.  Every line of the output file comes from a record whose email is   *)
(* not empty: the k-th line is the k-th accepted record's, that record's   *)
(* email is a non-empty string, and it is the line's email column (the     *)
(* third from the end).                                                    *)
(***************************************************************************)
C1_EmailRequired ==
    /\ Len(output) <= Len(Records)
    /\ \A k \in 1..Len(output) :
          /\ Records[k].contact_email # ""
          /\ Fields(output[k])[Len(Fields(output[k])) - 2] = Records[k].contact_email

\* a line was written after a school without email was skipped
C1_Witness ==
    /\ Len(output) >= 1
    /\ \E k \in 1..Len(stdout) : stdout[k] = PrintedNoEmail

(***************************************************************************)
(* C2.  A school page with no mailto anchor at all is skipped: after the   *)
(* extractor has run on such a page nothing was raised and the run is not  *)
(* over because of it.                                                     *)
(***************************************************************************)
IsSchoolGet(e) == e.op = "get" /\ ~StartsWith(e.url, bc_home_url)
C2_NoAnchorIsSkipped ==
    prog = "bc" =>
        \A k \in 1..Len(trace) :
            (IsSchoolGet(trace[k]) /\ ~BCPageAt(trace[k].url).anchor)
                => (err = NoError /\ pc # "crashed")

(***************************************************************************)
(* C3.  As claimed: every line of the output file splits on the comma into *)
(* exactly 13 fields.                                                      *)
(***************************************************************************)
C3_Exactly13Fields ==
    \A k \in 1..Len(output) : Len(Fields(output[k])) = 13

(***************************************************************************)
(* C3, amended.  Every line is the 13 values of its record joined by       *)
(* commas without quoting: it splits into 13 fields plus one for every     *)
(* comma inside a value, so into exactly 13 when no value holds a comma.   *)
(***************************************************************************)
C3_ThirteenPlusEmbedded ==
    /\ Len(output) <= Len(Records)
    /\ \A k \in 1..Len(output) :
          Len(Fields(output[k])) = 13 + EmbeddedCommas(Records[k])

\* the file holds a line of 13 fields and a line of more
C3_Witness ==
    /\ \E k \in 1..Len(output) : Len(Fields(output[k])) = 13
    /\ \E k \in 1..Len(output) : Len(Fields(output[k])) > 13

(***************************************************************************)
(* C4.  As claimed: the fields of a line are, in this order, school_id,    *)
(* name, address, city, region_code, postal_code, school_board,            *)
(* contact_name, contact_position, phone, email, timezone, country_code.   *)
(***************************************************************************)
C4_SchemaOrder ==
    \A k \in 1..Len(output) :
        LET p == Records[k] IN
        output[k] = Join(<<p.school_id, p.school_name, p.address, p.city, p.province,
                           p.postal_code, p.schoolboard, p.contact_name,
                           p.contact_position, p.contact_phone, p.contact_email,
                           p.timezone, p.country>>, ",")

(***************************************************************************)
(* C4, amended.  The fields of a line are, in this order, school_id, name, *)
(* address, city, region_code, postal_code, school_board, contact_name,    *)
(* phone, contact_position, email, timezone, country_code: phone is the    *)
(* 9th field and contact_position the 10th.                                *)
(***************************************************************************)
C4_WrittenOrder ==
    /\ Len(output) <= Len(Records)
    /\ \A k \in 1..Len(output) :
          LET p == Records[k] IN
          /\ output[k] = Join(<<p.school_id, p.school_name, p.address, p.city, p.province,
                                p.postal_code, p.schoolboard, p.contact_name,
                                p.contact_phone, p.contact_position, p.contact_email,
                                p.timezone, p.country>>, ",")
          /\ EmbeddedCommas(p) = 0 =>
                /\ Fields(output[k])[9] = p.contact_phone
                /\ Fields(output[k])[10] = p.contact_position

\* a line without embedded commas whose phone and position differ
C4_Witness ==
    \E k \in 1..Len(output) :
        /\ EmbeddedCommas(Records[k]) = 0
        /\ Records[k].contact_phone = "250-1"
        /\ Records[k].contact_position = "Principal"

(***************************************************************************)
(* C5.  The first option of a dropdown is never used, every later one is.  *)
(***************************************************************************)
IsCityGet(e) == e.op = "get" /\ StartsWith(e.url, bc_home_url \o "?city=")
IsSelect(e) == e.op = "select"
\* the city pages loaded, in order
CityGets == SelectSeq(trace, IsCityGet)
\* the school pages loaded since the last city page was
SchoolGetsOfCity ==
    LET at == {k \in 1..Len(trace) : IsCityGet(trace[k])}
        last == IF at = {} THEN 0 ELSE CHOOSE k \in at : \A j \in at : j <= k
    IN SelectSeq(SubSeq(trace, last + 1, Len(trace)), IsSchoolGet)
\* the state values selected on the search page, in order
Selects == SelectSeq(trace, IsSelect)
\* the number of options after the first
Rest(options) == IF Len(options) = 0 THEN 0 ELSE Len(options) - 1
\* a city's school loop has run to its end
CityCompleted == prog = "bc" /\ CityGets # <<>> /\ pc \in {"cities_loop", "done"}
\* the state dropdown has been read
StatesRead ==
    /\ prog = "india"
    /\ \E k \in 1..Len(logfile) : logfile[k].msg = "Found %d states"
StateOptions == site.india.stateSelect.options
EntryOf(option) == <<Title(option.text), option.value>>
Entries == {states_and_values[k] : k \in 1..Len(states_and_values)}

\* the k-th city page loaded is the page of option k (counting from 0), and
\* a finished run has loaded one page for every option but the first
C5_Cities ==
    prog = "bc" =>
        /\ \A k \in 1..Len(CityGets) :
              k + 1 <= Len(cities) /\ CityGets[k].url = CityUrl(cities[k + 1])
        /\ pc = "done" => Len(CityGets) = Rest(cities)

\* the same for the schools of a city
C5_Schools ==
    prog = "bc" =>
        /\ \A k \in 1..Len(SchoolGetsOfCity) :
              /\ k + 1 <= Len(schools)
              /\ SchoolGetsOfCity[k].url = SchoolUrl(schools[k + 1][2])
        /\ CityCompleted => Len(SchoolGetsOfCity) = Rest(schools)

\* every state searched comes from an option after the first; the values
\* selected are those of the states in order, once per letter; a finished
\* run has selected every state it lists
C5_StatesFromLaterOptions ==
    StatesRead =>
        /\ \A e \in Entries :
              \E k \in 2..Len(StateOptions) : e = EntryOf(StateOptions[k])
        /\ \A k \in 1..Len(Selects) :
              /\ k <= Len(states_and_values) * Len(Letters)
              /\ Selects[k].value = states_and_values[((k - 1) \div Len(Letters)) + 1][2]
        /\ pc = "done" => Len(Selects) = Len(states_and_values) * Len(Letters)

\* every option after the first is a state searched
C5_EveryLaterOption ==
    StatesRead =>
        \A k \in 2..Len(StateOptions) : EntryOf(StateOptions[k]) \in Entries

\* every name borne by an option after the first is a state searched, once,
\* with the value of the last option that bears it
C5_EveryLaterName ==
    StatesRead =>
        /\ \A k \in 2..Len(StateOptions) :
              (\A j \in (k + 1)..Len(StateOptions) :
                   Title(StateOptions[j].text) # Title(StateOptions[k].text))
                 => EntryOf(StateOptions[k]) \in Entries
        /\ \A i, j \in 1..Len(states_and_values) :
              states_and_values[i][1] = states_and_values[j][1] => i = j

(***************************************************************************)
(* C5.  As claimed: in the city, the school and the state dropdown the     *)
(* option at index 0 is never navigated to or searched, and every option   *)
(* at index 1 or more is.                                                  *)
(***************************************************************************)
C5_FirstOptionOnlySkipped ==
    /\ C5_Cities
    /\ C5_Schools
    /\ C5_StatesFromLaterOptions
    /\ C5_EveryLaterOption

(***************************************************************************)
(* C5, amended.  The option at index 0 is never navigated to or searched.  *)
(* A run that finishes loads the page of every city option and of every    *)
(* school option at index 1 or more, in dropdown order.  The state options *)
(* at index 1 or more are keyed by their title-cased text: every such name *)
(* is searched, once, with the value of the last option that bears it.     *)
(***************************************************************************)
C5_FirstOptionSkippedNamesOnce ==
    /\ C5_Cities
    /\ C5_Schools
    /\ C5_StatesFromLaterOptions
    /\ C5_EveryLaterName

\* a finished India run whose dropdown names one state twice
C5_Witness ==
    /\ StatesRead /\ pc = "done"
    /\ Len(states_and_values) < Rest(StateOptions)
    /\ Len(Selects) >= 2

\* a finished British Columbia run that visited two cities of two schools
C5_WitnessBC ==
    /\ prog = "bc" /\ pc = "done"
    /\ Len(CityGets) = 2 /\ Len(SchoolGetsOfCity) = 2

(***************************************************************************)
(* Reading an India run.                                                   *)
(***************************************************************************)
IsSearchClick(e) == e.op = "click" /\ e.id = "search"
IsNextClick(e) == e.op = "click" /\ e.id = "Button1"
\* the searches submitted for a state value and a letter: the value selected,
\* the pause, the letter typed, the search button clicked
SearchesFor(value, letter) ==
    {k \in 3..(Len(trace) - 1) :
        /\ trace[k - 2] = EvSelect(value)
        /\ trace[k] = EvType(letter)
        /\ IsSearchClick(trace[k + 1])}
IsSearchingMsg(m) == m.msg = "\tSearching for schools with '%s' in the name or address"
IsPageMsg(m) == m.msg = "\t\tScraping page %d"
\* the result pages scraped for the last search submitted, in order
PagesOfLastSearch ==
    LET at == {k \in 1..Len(logfile) : IsSearchingMsg(logfile[k])}
        last == IF at = {} THEN 0 ELSE CHOOSE k \in at : \A j \in at : j <= k
        msgs == SelectSeq(SubSeq(logfile, last + 1, Len(logfile)), IsPageMsg)
    IN [k \in 1..Len(msgs) |-> msgs[k].args[1]]
SearchSubmitted == prog = "india" /\ \E k \in 1..Len(trace) : IsSearchClick(trace[k])
\* the last search submitted has been dealt with and the run goes on
SearchOver == SearchSubmitted /\ pc \in {"letters_loop", "states_loop", "done"}
\* the smallest number of pages of d results that hold n results
CeilDiv(n, d) == CHOOSE m \in 0..n : m * d >= n /\ (m = 0 \/ (m - 1) * d < n)
Least(a, b) == IF a <= b THEN a ELSE b

(***************************************************************************)
(* C6.  Every click on the search button is preceded, since the previous   *)
(* click on the search button or on Next, by a load of the entry URL and,  *)
(* after it, the selection of the state: no search is submitted from a     *)
(* result page.                                                            *)
(***************************************************************************)
C6_SearchFromFreshPage ==
    prog = "india" =>
        \A k \in 1..Len(trace) :
            IsSearchClick(trace[k]) =>
                \E i \in 1..(k - 1) : \E j \in (i + 1)..(k - 1) :
                    /\ trace[i] = EvGet(in_base_url)
                    /\ IsSelect(trace[j])
                    /\ \A m \in i..(k - 1) :
                          ~IsSearchClick(trace[m]) /\ ~IsNextClick(trace[m])

\* a second search was submitted after Next had been clicked in the first
C6_Witness ==
    /\ prog = "india"
    /\ \E a, b, c \in 1..Len(trace) :
          /\ a < b /\ b < c
          /\ IsSearchClick(trace[a]) /\ IsNextClick(trace[b]) /\ IsSearchClick(trace[c])

(***************************************************************************)
(* C7.  In a finished India run, for every state listed and every letter   *)
(* a to z exactly one search was submitted.                                *)
(***************************************************************************)
C7_EveryLetterOnce ==
    (prog = "india" /\ pc = "done") =>
        \A e \in Entries : \A letter \in LowerSet :
            Cardinality(SearchesFor(e[2], letter)) = 1

(***************************************************************************)
(* C8.  The result pages scraped for a search are pages 1, 2, ... in       *)
(* order; once the search is over their number is the smaller of           *)
(* ceil(n / 25), n the result count shown, and the number of the first     *)
(* page whose Next button is disabled; a disabled Next is never clicked.   *)
(***************************************************************************)
C8_PagesScraped ==
    prog = "india" =>
        /\ \A k \in 1..Len(PagesOfLastSearch) : PagesOfLastSearch[k] = k
        /\ (SearchOver /\ site.india.search.tot) =>
              Len(PagesOfLastSearch) =
                  Least(CeilDiv(ParseInt(site.india.search.text), 25),
                        site.india.search.last)
        /\ \A k \in 1..Len(trace) : IsNextClick(trace[k]) => trace[k].enabled

\* a search of two pages of results is over after one page, Next disabled
C8_Witness ==
    /\ SearchOver
    /\ site.india.search.tot /\ site.india.search.text = "26"
    /\ site.india.search.last = 1
    /\ PagesOfLastSearch = <<1>>

\* a search of two pages of results is over after both
C8_WitnessBoth ==
    /\ SearchOver
    /\ site.india.search.tot /\ site.india.search.text = "26"
    /\ site.india.search.last = 2
    /\ PagesOfLastSearch = <<1, 2>>

(***************************************************************************)
(* C9.  A search the site answers with zero results, by leaving the result *)
(* count out or by showing the no-results label with the count present,    *)
(* ends normally: no result page is scraped and nothing is raised.         *)
(***************************************************************************)
C9_ZeroResultsNormal ==
    (SearchSubmitted /\ (~site.india.search.tot \/ site.india.search.label)) =>
        /\ PagesOfLastSearch = <<>>
        /\ err = NoError

(***************************************************************************)
(* C10.  A dropdown lookup that failed on a stale element is a transient   *)
(* failure: it is retried, the run does not end on it.                     *)
(***************************************************************************)
C10_TransientLookupRetried ==
    (\E k \in 1..Len(logfile) :
        /\ logfile[k].level = "critical"
        /\ logfile[k].args[1] = "StaleElementReferenceException")
      => (err = NoError /\ pc # "crashed")

(***************************************************************************)
(* C11.  When the lookup of a dropdown fails because the element is not a  *)
(* SELECT or is stale, the failure is logged at critical severity and the  *)
(* run goes on: no exception ends it.                                      *)
(***************************************************************************)
C11_CriticalLookupNotFatal ==
    (\E k \in 1..Len(logfile) :
        /\ logfile[k].level = "critical"
        /\ logfile[k].args[1] \in CaughtLookupFailures)
      => (err = NoError /\ pc # "crashed")

(***************************************************************************)
(* C12.  A failed element lookup while a record or a scope is scraped (an  *)
(* element missing on a school page, a result block with too few lines)    *)
(* never ends the run.                                                     *)
(***************************************************************************)
C12_LookupFailureNotFatal ==
    ~(/\ pc = "crashed"
      /\ err.type \in {"NoSuchElementException", "IndexError"}
      /\ err.at \in {"__extract_contact_info", "__scrape_schools"})

(***************************************************************************)
(* C13.  Every page navigation (a page load, a click on Next) is           *)
(* immediately preceded by a pacing sleep.                                 *)
(***************************************************************************)
IsNavigation(e) == e.op = "get" \/ IsNextClick(e)
C13_SleepBeforeEveryNavigation ==
    \A k \in 1..Len(trace) :
        IsNavigation(trace[k]) => (k > 1 /\ trace[k - 1] = EvSleep)

(***************************************************************************)
(* Reading a British Columbia run: the page the browser shows and the      *)
(* record printed for it.                                                  *)
(***************************************************************************)
\* the extractor has printed a record for the school page the browser shows:
\* it is the last thing printed
RecordShown ==
    /\ prog = "bc" /\ stdout # <<>>
    /\ \E v \in SchoolValues : browser.url = SchoolUrl(v)
    /\ BCPageAt(browser.url).anchor
    /\ Slice(BCPageAt(browser.url).href, 7) # ""
LastRecord == stdout[Len(stdout)]
\* the k-th line (from 1) of the left column of the page shown, "" if missing
LeftLine(k) ==
    LET left == Split(BCPageAt(browser.url).left, "\n") IN
    IF Len(left) >= k THEN left[k] ELSE ""
AddressLine == LeftLine(3)
ContactLine == LeftLine(4)
\* the text before and after the first occurrence of sep in s
BeforeFirst(s, sep) == SubSeq(s, 1, Find(s, sep, 1) - 1)
AfterFirst(s, sep) == SubSeq(s, Find(s, sep, 1) + Len(sep), Len(s))

(***************************************************************************)
(* C14.  Contact parsing: a contact line holding the separator " - "       *)
(* gives the position, the trimmed text before the first separator, and    *)
(* the name, the trimmed text after it; a line without the separator, or   *)
(* a missing line, gives position "N/A" and name "".                       *)
(***************************************************************************)
C14_ContactParsing ==
    RecordShown =>
        IF Find(ContactLine, " - ", 1) # 0
        THEN /\ LastRecord.contact_position = Strip(BeforeFirst(ContactLine, " - "))
             /\ LastRecord.contact_name = Strip(AfterFirst(ContactLine, " - "))
        ELSE /\ LastRecord.contact_position = "N/A"
             /\ LastRecord.contact_name = ""

(***************************************************************************)
(* Reading addresses: the comma-separated parts of a composite address,    *)
(* the token it ends in, and the blocks of the India result page.          *)
(***************************************************************************)
\* six characters shaped like a postal code: A1A1A1 or six digits
IsPostalToken(t) ==
    /\ Len(t) = 6
    /\ \/ AllDigits(t)
       \/ \A k \in 1..6 : IF k % 2 = 1 THEN IsUpper(CharAt(t, k)) ELSE IsDigit(CharAt(t, k))
AddressParts(line) == Split(line, ",")
TrailingToken(line) == Strip(AddressParts(line)[Len(AddressParts(line))])
EndsInPostal(line) == Len(AddressParts(line)) >= 2 /\ IsPostalToken(TrailingToken(line))
HasPostalToken(line) ==
    \E k \in 1..Len(AddressParts(line)) : IsPostalToken(Strip(AddressParts(line)[k]))
\* everything before the trailing token, the comma before the token dropped
BeforeToken(line) ==
    Strip(Join(SubSeq(AddressParts(line), 1, Len(AddressParts(line)) - 1), ","))
WithoutTrailingComma(a) ==
    IF Len(a) > 0 /\ CharAt(a, Len(a)) = "," THEN SubSeq(a, 1, Len(a) - 1) ELSE a
\* the school blocks of the result page that carry a name and an address
NamedBlocks ==
    {site.india.tables[k] : k \in
        {j \in 2..Len(site.india.tables) :
            /\ AfterColon(Split(site.india.tables[j], "\n"), 2).ok
            /\ AfterColon(Split(site.india.tables[j], "\n"), 4).ok}}
BlockName(b) == EncodeAsciiIgnore(Title(Strip(AfterColon(Split(b, "\n"), 2).s)))
BlockAddress(b) == AfterColon(Split(b, "\n"), 4).s
\* the records printed in an India run
IndiaRecords ==
    IF prog = "india" THEN {stdout[k] : k \in {j \in 1..Len(stdout) : IsRecord(stdout[j])}}
    ELSE {}
\* the records printed for the block b
RecordsOf(b) == LET name == BlockName(b) IN {r \in IndiaRecords : r.school_name = name}

(***************************************************************************)
(* C15.  An address that ends in a postal-code-shaped token is split into  *)
(* postal_code, that token, and address, everything before the token with  *)
(* the trailing comma dropped, however many comma-separated parts precede  *)
(* the token.                                                              *)
(***************************************************************************)
C15_TrailingPostalSplit ==
    /\ (RecordShown /\ EndsInPostal(AddressLine)) =>
          /\ LastRecord.postal_code = TrailingToken(AddressLine)
          /\ LastRecord.address = BeforeToken(AddressLine)
    /\ IndiaRecords # {} =>
          \A b \in NamedBlocks :
              EndsInPostal(BlockAddress(b)) =>
                  LET token == TrailingToken(BlockAddress(b))
                      before == EncodeAsciiIgnore(Title(BeforeToken(BlockAddress(b))))
                  IN \A r \in RecordsOf(b) :
                        r.postal_code = token /\ r.address = before

C16_WitnessBC ==
    /\ RecordShown /\ ~HasPostalToken(AddressLine)
    /\ LastRecord.address = "5 Oak Ave" /\ LastRecord.postal_code = "BC"

(***************************************************************************)
(* Reading the files remove_dupes was applied to.                          *)
(***************************************************************************)
\* the files that have been deduplicated into a sibling
Deduped == {f \in DOMAIN files : UniqueName(f) # f /\ UniqueName(f) \in DOMAIN files}
FirstAt(lines, x) ==
    CHOOSE k \in 1..Len(lines) :
        lines[k] = x /\ \A j \in 1..(k - 1) : lines[j] # x
LinesOf(lines) == {lines[k] : k \in 1..Len(lines)}

(***************************************************************************)
(* C17.  The '-unique' sibling that remove_dupes writes holds every line   *)
(* of the input once, in the order of the first occurrences in the input:  *)
(* lines A, B, A, C give A, B, C.                                          *)
(***************************************************************************)
C17_FirstOccurrencesInOrder ==
    \A f \in Deduped :
        LET in == files[f]
            out == files[UniqueName(f)]
        IN /\ LinesOf(out) = LinesOf(in)
           /\ \A i, j \in 1..Len(out) : out[i] = out[j] => i = j
           /\ \A i, j \in 1..Len(out) : i < j => FirstAt(in, out[i]) < FirstAt(in, out[j])
           /\ in = <<"A", "B", "A", "C">> => out = <<"A", "B", "C">>

\* the file A, B, A, C has been deduplicated
C17_Witness ==
    /\ "d.csv" \in Deduped
    /\ files["d.csv"] = <<"A", "B", "A", "C">>
    /\ files["d-unique.csv"] = <<"A", "B", "C">>

(***************************************************************************)
(* C18.  Deduplication is idempotent: remove_dupes applied to a file it    *)
(* wrote gives a file of identical contents.                               *)
(***************************************************************************)
C18_Idempotent ==
    \A f \in Deduped :
        UniqueName(f) \in Deduped =>
            files[UniqueName(UniqueName(f))] = files[UniqueName(f)]

\* a file with a repeated line has been deduplicated twice
C18_Witness ==
    /\ {"d.csv", "d-unique.csv"} \subseteq Deduped
    /\ Len(files["d-unique.csv"]) = 2
    /\ Len(files["d.csv"]) = 3
    /\ files["d-unique-unique.csv"] = files["d-unique.csv"]

(***************************************************************************)
(* C19.  When the data directory is missing in the current, the parent and *)
(* the grandparent directory and the user declines to create it, the       *)
(* program exits with status 1; no browser session was started and nothing *)
(* was written.                                                            *)
(***************************************************************************)
Declines(response) == response # "" /\ CharAt(response, 1) \notin {"y", "Y"}
DataDeclined == prog \in {"bc", "india"} /\ fs.data.isdir = {} /\ Declines(fs.data.response)
C19_DeclinedDataExits ==
    DataDeclined =>
        /\ trace = <<>> /\ ~browser.open
        /\ output = <<>> /\ files = <<>>
        /\ (pc \notin {"main", "main_data"} /\ err = NoError) =>
              /\ pc = "exit1" /\ ExitStatus = 1
              /\ stdout[Len(stdout)] = PrintedNeedData
        /\ pc \notin {"main", "main_data"} => ExitStatus = 1

\* the program has exited after both directories were declined
C19_Witness ==
    /\ DataDeclined /\ pc = "exit1"
    /\ fs.logs.isdir = {} /\ Declines(fs.logs.response)

(***************************************************************************)
(* C20.  The data file is append-only over the whole run, the optional     *)
(* deduplication included: every step leaves the lines it held as a prefix *)
(* of the lines it holds, and every line in it is a complete record line   *)
(* (thirteen fields or more, the last one the country code).               *)
(***************************************************************************)
CompleteLines ==
    \A k \in 1..Len(output) :
        /\ Len(Fields(output[k])) >= 13
        /\ Fields(output[k])[Len(Fields(output[k]))] = "CA"
C20_WitnessCrash ==
    /\ pc = "crashed" /\ err.at = "__extract_contact_info" /\ Len(output) >= 1

(***************************************************************************)
(* C21.  No value of an accepted record, and no field of a line of the     *)
(* output file, is the empty string: a value the page does not give is     *)
(* written as 'N/A' or 'null'.                                             *)
(***************************************************************************)
C21_NoEmptyField ==
    /\ \A k \in 1..Len(Records) :
          \A j \in 1..13 : ValuesOf(Records[k])[j] # ""
    /\ \A k \in 1..Len(output) :
          \A j \in 1..Len(Fields(output[k])) : Fields(output[k])[j] # ""

(***************************************************************************)
(* C22.  In an India run the output file holds one line for every school   *)
(* block parsed with an email, and none for a block without: it has as     *)
(* many lines as records were accepted, the k-th line carrying the k-th    *)
(* record's email.                                                         *)
(***************************************************************************)
C22_IndiaLinePerEmail ==
    prog = "india" =>
        /\ Len(output) = Len(Records)
        /\ \A k \in 1..Len(output) :
              Fields(output[k])[Len(Fields(output[k])) - 2] = Records[k].contact_email

(***************************************************************************)
(* C23.  The India scraper reads the state dropdown once, before any       *)
(* state is searched, and goes through the states in ascending order of    *)
(* their title-cased name whatever the order of the options: the names     *)
(* logged as scraped are the first entries of states_and_values, each      *)
(* smaller than the next, and a finished run has scraped every name borne  *)
(* by an option after the first.                                           *)
(***************************************************************************)
IsFoundStatesMsg(m) == m.msg = "Found %d states"
IsScrapingStateMsg(m) == m.msg = "Scraping state %s"
\* the names of the states iterated, in order
StatesIterated ==
    LET msgs == SelectSeq(logfile, IsScrapingStateMsg)
    IN [k \in 1..Len(msgs) |-> msgs[k].args[1]]
\* how many times the dropdown was read
DropdownReads == Len(SelectSeq(logfile, IsFoundStatesMsg))
OptionNames == {Title(StateOptions[k].text) : k \in 2..Len(StateOptions)}
C23_StatesSortedByName ==
    prog = "india" =>
        /\ DropdownReads <= 1
        /\ StatesIterated # <<>> => DropdownReads = 1
        /\ \A k \in 1..Len(logfile) :
              IsFoundStatesMsg(logfile[k]) =>
                  \A j \in 1..(k - 1) : ~IsScrapingStateMsg(logfile[j])
        /\ Len(StatesIterated) <= Len(states_and_values)
        /\ \A k \in 1..Len(StatesIterated) : StatesIterated[k] = states_and_values[k][1]
        /\ \A i, j \in 1..Len(StatesIterated) :
              i < j => StrLess(StatesIterated[i], StatesIterated[j])
        /\ pc \in {"done", "exited"} =>
              {StatesIterated[k] : k \in 1..Len(StatesIterated)} = OptionNames
        /\ (pc \in {"done", "exited"} /\ OptionNames = {"Goa", "Bihar"}) =>
              StatesIterated = <<"Bihar", "Goa">>

\* a finished run over a dropdown that lists GOA before BIHAR
C23_Witness ==
    /\ prog = "india" /\ pc = "done"
    /\ Len(StateOptions) = 3
    /\ StateOptions[2].text = "GOA" /\ StateOptions[3].text = "BIHAR"
    /\ StatesIterated = <<"Bihar", "Goa">>

(***************************************************************************)
(* C24.  A British Columbia scrape over finite dropdowns, on the expected  *)
(* site and with no element lookup failing, terminates: it loads the page  *)
(* of every city option after the first, once, in dropdown order, and      *)
(* within each city the page of every school option after the first, once, *)
(* in dropdown order, extracting each school from the page just loaded;    *)
(* it then closes the browser.  The lines of the output file are the       *)
(* lines of the schools in the order visited.                              *)
(***************************************************************************)
RECURSIVE Flatten(_)
Flatten(seqs) == IF Len(seqs) = 0 THEN <<>> ELSE Head(seqs) \o Flatten(Tail(seqs))
CityOptions == site.bc.citySelect.options
SchoolOptions == site.bc.schoolSelect.options
\* the (city, school option) pairs of the options after the first, in order
BCVisits ==
    Flatten([c \in 1..Rest(CityOptions) |->
                [s \in 1..Rest(SchoolOptions) |->
                    [city |-> CityOptions[c + 1], school |-> SchoolOptions[s + 1]]]])
\* no lookup fails: the site is the expected one, both dropdowns are found,
\* every school page visited has its email anchor
BCNoLookupFailure ==
    /\ prog = "bc"
    /\ site.bc.home_ok
    /\ site.bc.citySelect.result = "ok"
    /\ site.bc.schoolSelect.result = "ok"
    /\ \A k \in 1..Len(BCVisits) : site.bc.pages[BCVisits[k].school.value].anchor
\* the navigation of a whole run
BCExpectedTrace ==
    <<EvGet(bc_home_url)>>
    \o Flatten([c \in 1..Rest(CityOptions) |->
                   <<EvSleep, EvGet(CityUrl(CityOptions[c + 1]))>>
                   \o Flatten([s \in 1..Rest(SchoolOptions) |->
                                  <<EvSleep, EvGet(bc_base_url \o SchoolOptions[s + 1].value)>>])])
    \o <<EvClose>>
\* what the school pages visited give, in visit order
BCExpectedOutput ==
    Flatten([k \in 1..Len(BCVisits) |->
                ExtractContactInfo(Strip(BCVisits[k].school.text), BCVisits[k].city,
                                   site.bc.pages[BCVisits[k].school.value]).lines])
BCRunComplete ==
    /\ pc = "done"
    /\ ~browser.open
    /\ trace = BCExpectedTrace
    /\ output = BCExpectedOutput
    /\ Len(SelectSeq(stdout, LAMBDA e : e.kind \in {"record", "no email found"})) = Len(BCVisits)
C24_BCRunTerminates ==
    (pc = "scrape" /\ BCNoLookupFailure) ~> BCRunComplete

\* a finished run over two cities of two schools each that wrote lines
C24_Witness ==
    /\ BCNoLookupFailure /\ BCRunComplete
    /\ Rest(CityOptions) = 2 /\ Rest(SchoolOptions) = 2
    /\ Len(output) >= 2

(***************************************************************************)
(* C25.  remove_dupes never modifies a file that exists, its input least   *)
(* of all, whatever the input's name: every call leaves each file with the *)
(* contents it had, and writes the deduplicated lines to another file.     *)
(***************************************************************************)
C25_InputUntouched ==
    [][\A f \in DOMAIN files : f \in DOMAIN files' /\ files'[f] = files[f]]_vars

(***************************************************************************)
(* C26.  main configures the logger with a log path that was assigned:     *)
(* when the logs directory is missing and the user declines to create it,  *)
(* the program stops with the declined-directory exit (status 1) and       *)
(* never reaches set_logger with logpath unassigned; when both directories *)
(* exist, logpath is the logs directory and datapath lies in the data      *)
(* directory.                                                              *)
(***************************************************************************)
LogsDeclined == prog \in {"bc", "india"} /\ fs.logs.isdir = {} /\ Declines(fs.logs.response)
\* where dir_exists finds a directory that exists in one of the places
DirPath(dirname, places) ==
    IF "current" \in places THEN "./" \o dirname \o "/"
    ELSE IF "parent" \in places THEN "../" \o dirname \o "/"
    ELSE "../../" \o dirname \o "/"
AfterDirs == pc \notin {"main", "main_data"}
C26_LogsDeclinedExits ==
    LogsDeclined =>
        /\ err # Raised("UnboundLocalError", "main")
        /\ AfterDirs => (pc = "exit1" /\ err = NoError /\ ExitStatus = 1)
C26_BothExist ==
    (prog \in {"bc", "india"} /\ fs.logs.isdir # {} /\ fs.data.isdir # {} /\ AfterDirs) =>
        /\ logpath = DirPath("logs", fs.logs.isdir)
        /\ datapath = DirPath("data", fs.data.isdir) \o ArgsOutput
        /\ StartsWith(datapath, DirPath("data", fs.data.isdir))
        /\ err # Raised("UnboundLocalError", "main")
C26_LoggerPathDefined ==
    /\ C26_LogsDeclinedExits
    /\ C26_BothExist
    /\ logfile # <<>> => logpath # "unbound"

(***************************************************************************)
(* Reading the Next clicks of a search.                                    *)
(***************************************************************************)
\* the clicks on Next since the last search was submitted
NextClicksOfLastSearch ==
    LET at == {k \in 1..Len(trace) : IsSearchClick(trace[k])}
        last == IF at = {} THEN 0 ELSE CHOOSE k \in at : \A j \in at : j <= k
    IN Len(SelectSeq(SubSeq(trace, last + 1, Len(trace)), IsNextClick))
\* ceil(n / 25) for the result count n the site shows
PagesCounted == CeilDiv(ParseInt(site.india.search.text), PageSize)
\* the last search scraped a page and is over
SearchScraped == SearchOver /\ site.india.search.tot /\ Len(PagesOfLastSearch) >= 1

====
